---- MODULE Spec2Model ----
(***************************************************************************)
(* Model of the SmartAds detection loop, temporal tracker, capture-session *)
(* aggregation and ad queue (SmartAdsSystem, useFaceDetection, useAdQueue).*)
(*                                                                         *)
(* Numbers: probabilities, confidences, scores and votes are fixed point   *)
(* in thousandths (0.65 is 650); coordinates are whole pixels.             *)
(***************************************************************************)
EXTENDS Integers, Sequences, FiniteSets, TLC

VARIABLES
  trackedFaces,     \* trackedFacesRef.current : id -> TrackedFace
  nextId,           \* freshness of `face_${currentTime}_${random}` ids
  captureSession,   \* captureSessionRef.current : NoSession or session record
  currentViewers,   \* React state currentViewers : id -> reported detection
  demographics,     \* React state demographics / lastDemographicsRef
  isCapturing,      \* isCapturingRef.current
  intervalArmed,    \* captureIntervalRef.current # null (and not cleared)
  inFlight,         \* inFlightRef.current
  cycle,            \* the detectFaces call the pending tick awaits, or NoCycle
  abandoned,        \* detection bodies still running after their timeout
  testMode,         \* React state testMode
  manualMode,       \* React state manualMode
  sourceStarting,   \* startDetectionWithSource awaiting sourceStarter()
  pendingStarts,    \* startDetectionLoop calls scheduled and not yet run
  currentTime,      \* React state currentTime (playback position, seconds)
  currentAd,        \* React state currentAd (catalog index)
  queue,            \* useAdQueue state queue (sequence of catalog indices)
  lastPlayedId,     \* lastPlayedIdRef.current (catalog index, 0 = null)
  lastSessionSummary, \* React state lastSessionSummary, or NoSummary
  reorderCall,      \* argument of the reorderQueue call made by the last step
  unfinalized,      \* history: playback left the window with a session open
  captureSettings,  \* React state captureSettings (startPercent, endPercent)
  ticks,            \* number of interval ticks so far (bounds the model)
  lastDetection,    \* a detection body: what the detector calls yield on the
                    \* frame and, once it has run, what detectFaces returned
  falsePositives    \* history: ids of the tracks removed as false positives
                    \* since the capture session was opened

vars == << trackedFaces, nextId, captureSession, currentViewers, demographics,
           isCapturing, intervalArmed, inFlight, cycle, abandoned,
           testMode, manualMode, sourceStarting, pendingStarts,
           currentTime, currentAd, queue, lastPlayedId, lastSessionSummary,
           reorderCall, unfinalized, captureSettings, ticks, lastDetection,
           falsePositives >>

----------------------------------------------------------------------------
(* Bounds of the model *)

MaxTicks == 3
MaxPlaybackTicks == 4
MaxPendingStarts == 1
MaxAbandoned == 1

----------------------------------------------------------------------------
(* Program constants *)

MIN_VOTE_CONFIDENCE == 650
MIN_FRAMES_FOR_SESSION == 2
minConsecutiveFrames == 2
holdFrames == 3
maxVelocityPx == 250
minDemographicConfidence == 750
femaleBoostFactor == 150
correctionWeight == 100000

Genders == {"male", "female"}
AgeGroups == {"kid", "young", "adult"}

Max(a, b) == IF a >= b THEN a ELSE b
Min(a, b) == IF a <= b THEN a ELSE b
Abs(a) == IF a >= 0 THEN a ELSE -a

\* Math.sqrt on the squared centre distance, to whole (half-)pixels.
Sqrt(n) ==
  CHOOSE r \in 0..n : r * r <= n /\ (r + 1) * (r + 1) > n

----------------------------------------------------------------------------
(* Geometry: calculateIoU, calculateCenterDistance *)

Intersection(box1, box2) ==
  LET x1 == Max(box1.x, box2.x)
      y1 == Max(box1.y, box2.y)
      x2 == Min(box1.x + box1.width, box2.x + box2.width)
      y2 == Min(box1.y + box1.height, box2.y + box2.height)
  IN  Max(0, x2 - x1) * Max(0, y2 - y1)

\* calculateIoU as the exact fraction <<intersection, union>> (0 is <<0, 1>>).
calculateIoU(box1, box2) ==
  LET intersection == Intersection(box1, box2)
      area1 == box1.width * box1.height
      area2 == box2.width * box2.height
      union == area1 + area2 - intersection
  IN  IF union > 0 THEN << intersection, union >> ELSE << 0, 1 >>

\* calculateCenterDistance, doubled (centres are at half pixels).
calculateCenterDistance(box1, box2) ==
  LET dx == (2 * box2.x + box2.width) - (2 * box1.x + box1.width)
      dy == (2 * box2.y + box2.height) - (2 * box1.y + box1.height)
  IN  IF dy = 0 THEN Abs(dx)
      ELSE IF dx = 0 THEN Abs(dy)
      ELSE Sqrt(dx * dx + dy * dy)

----------------------------------------------------------------------------
(* Vote stabilisation: getStableGender, getStableAgeGroup (defaults         *)
(* minTotal = 0.9, minMargin = 0.25)                                        *)

\* getStableGender without the margin test: the leading gender wins as soon
\* as the total is reached.
getStableGenderNoMargin(votes, previous) ==
  IF votes.male + votes.female < 900 THEN previous
  ELSE IF votes.female > votes.male THEN "female" ELSE "male"

getStableGender(votes, previous) ==
  LET total == votes.male + votes.female
      diff == Abs(votes.female - votes.male)
  IN  IF total < 900 THEN previous
      ELSE IF diff < 250 THEN previous
      ELSE IF votes.female > votes.male THEN "female" ELSE "male"

\* entries sorted by votes descending; Array.prototype.sort is stable, so
\* ties keep the order kid, young, adult.
AgeOrder == << "kid", "young", "adult" >>
AgeRank(votes, k) ==
  Cardinality({j \in 1..3 :
     \/ votes[AgeOrder[j]] > votes[AgeOrder[k]]
     \/ votes[AgeOrder[j]] = votes[AgeOrder[k]] /\ j < k}) + 1
AgeSorted(votes) ==
  [r \in 1..3 |-> AgeOrder[CHOOSE k \in 1..3 : AgeRank(votes, k) = r]]

getStableAgeGroup(votes, previous) ==
  LET total == votes.kid + votes.young + votes.adult
      entries == AgeSorted(votes)
  IN  IF total < 900 THEN previous
      ELSE IF votes[entries[1]] - votes[entries[2]] < 250 THEN previous
      ELSE entries[1]

----------------------------------------------------------------------------
(* Tracker: one pass of the interval callback over a detection result       *)

\* score = iou * 0.6 + max(0, 1 - effectiveDistance / 200) * 0.4, in
\* thousandths; dist2 is the doubled distance.
MatchScore(iou, dist2) ==
  (600 * iou[1]) \div iou[2] + Max(0, 400 - dist2)

\* The inner loop over results[i] for one tracked face (lines 1191-1220).
RECURSIVE BestMatchFrom(_, _, _, _, _, _)
BestMatchFrom(trackedFace, results, usedDetections, i, bestMatch, bestScore) ==
  IF i > Len(results) THEN bestMatch
  ELSE IF i \in usedDetections
    THEN BestMatchFrom(trackedFace, results, usedDetections, i + 1,
                       bestMatch, bestScore)
  ELSE
    LET detection == results[i]
        iou == calculateIoU(detection.boundingBox, trackedFace.boundingBox)
        distance ==
          calculateCenterDistance(detection.boundingBox, trackedFace.boundingBox)
        predictedBox ==
          [trackedFace.boundingBox EXCEPT
             !.x = trackedFace.boundingBox.x + trackedFace.velocity.vx,
             !.y = trackedFace.boundingBox.y + trackedFace.velocity.vy]
        predictedDistance ==
          calculateCenterDistance(detection.boundingBox, predictedBox)
        effectiveDistance == Min(distance, predictedDistance)
        score == MatchScore(iou, effectiveDistance)
    IN  IF effectiveDistance > 2 * maxVelocityPx
          THEN BestMatchFrom(trackedFace, results, usedDetections, i + 1,
                             bestMatch, bestScore)
        ELSE IF /\ score > bestScore
                /\ (5 * iou[1] > iou[2] \/ effectiveDistance < 2 * 80)
          THEN BestMatchFrom(trackedFace, results, usedDetections, i + 1,
                             i, score)
        ELSE BestMatchFrom(trackedFace, results, usedDetections, i + 1,
                           bestMatch, bestScore)

\* A search that does not skip the detections already claimed.
BestMatchIgnoringClaims(trackedFace, results, usedDetections) ==
  BestMatchFrom(trackedFace, results, {}, 1, 0, 0)

BestMatch(trackedFace, results, usedDetections) ==
  BestMatchFrom(trackedFace, results, usedDetections, 1, 0, 0)

\* The ids of a table in Map iteration order (insertion order: ids are
\* handed out in increasing order and a re-set key keeps its place).
RECURSIVE IdSeq(_)
IdSeq(S) ==
  IF S = {} THEN << >>
  ELSE LET m == CHOOSE a \in S : \A b \in S : a <= b
       IN  << m >> \o IdSeq(S \ {m})

\* The outer loop (lines 1190-1225): match[id] is the index of the detection
\* assigned to track id, 0 when bestMatch stays null.
RECURSIVE MatchFrom(_, _, _, _, _)
MatchFrom(ids, tracked, results, usedDetections, match) ==
  IF ids = << >> THEN match
  ELSE LET id == Head(ids)
           best == BestMatch(tracked[id], results, usedDetections)
       IN  MatchFrom(Tail(ids), tracked, results,
                     IF best = 0 THEN usedDetections
                                 ELSE usedDetections \cup {best},
                     [match EXCEPT ![id] = best])

Matching(tracked, results) ==
  MatchFrom(IdSeq(DOMAIN tracked), tracked, results, {},
            [id \in DOMAIN tracked |-> 0])

\* matchedIds and usedDetections once the matching loop has produced match.
matchedIds(match) == {id \in DOMAIN match : match[id] # 0}

usedDetections(match) == {match[id] : id \in DOMAIN match} \ {0}

\* voteWeight and the proportional female boost (lines 1244-1258, 1346-1357).
VoteWeight(detection) ==
  (detection.confidence * Min(detection.faceScore, 1000)) \div 1000

FemaleVote(detection) ==
  LET confidenceScale == Max(0, 1000 - (detection.confidence - 500) * 2)
      femaleBoost == (femaleBoostFactor * confidenceScale) \div 1000
  IN  (VoteWeight(detection) * (1000 + femaleBoost)) \div 1000

AddGenderVote(votes, detection) ==
  IF detection.gender = "male"
    THEN [votes EXCEPT !.male = @ + VoteWeight(detection)]
    ELSE [votes EXCEPT !.female = @ + FemaleVote(detection)]

AddAgeVote(votes, detection) ==
  [votes EXCEPT ![detection.ageGroup] = @ + VoteWeight(detection)]

\* UpdateTrack without the isUserCorrected guards: a corrected track votes
\* and takes the detection's gender and age like any other.
UpdateTrackIgnoringCorrection(trackedFace, detection) ==
  LET isUserCorrected == FALSE
      votes == ~isUserCorrected /\ detection.confidence >= MIN_VOTE_CONFIDENCE
      newGenderVotes == IF votes
                          THEN AddGenderVote(trackedFace.genderVotes, detection)
                          ELSE trackedFace.genderVotes
      newAgeVotes == IF votes
                       THEN AddAgeVote(trackedFace.ageVotes, detection)
                       ELSE trackedFace.ageVotes
      old == trackedFace.boundingBox
      new == detection.boundingBox
  IN  [trackedFace EXCEPT
        !.boundingBox = [x |-> (3 * old.x + 7 * new.x) \div 10,
                         y |-> (3 * old.y + 7 * new.y) \div 10,
                         width |-> (3 * old.width + 7 * new.width) \div 10,
                         height |-> (3 * old.height + 7 * new.height) \div 10],
        !.velocity = [vx |-> (trackedFace.velocity.vx + (new.x - old.x)) \div 2,
                      vy |-> (trackedFace.velocity.vy + (new.y - old.y)) \div 2],
        !.confidence = IF isUserCorrected THEN 1000 ELSE detection.confidence,
        !.faceScore = detection.faceScore,
        !.gender = IF isUserCorrected THEN @ ELSE detection.gender,
        !.ageGroup = IF isUserCorrected THEN @ ELSE detection.ageGroup,
        !.consecutiveHits = @ + 1,
        !.missedFrames = 0,
        !.genderVotes = newGenderVotes,
        !.ageVotes = newAgeVotes,
        !.stableGender = IF isUserCorrected THEN @
                         ELSE getStableGender(newGenderVotes, @),
        !.stableAgeGroup = IF isUserCorrected THEN @
                           ELSE getStableAgeGroup(newAgeVotes, @)]

\* tracked.set(id, {...}) for a matched track (lines 1227-1295).
UpdateTrack(trackedFace, detection) ==
  LET isUserCorrected == trackedFace.isUserCorrected
      votes == ~isUserCorrected /\ detection.confidence >= MIN_VOTE_CONFIDENCE
      newGenderVotes == IF votes
                          THEN AddGenderVote(trackedFace.genderVotes, detection)
                          ELSE trackedFace.genderVotes
      newAgeVotes == IF votes
                       THEN AddAgeVote(trackedFace.ageVotes, detection)
                       ELSE trackedFace.ageVotes
      old == trackedFace.boundingBox
      new == detection.boundingBox
  IN  [trackedFace EXCEPT
        !.boundingBox = [x |-> (3 * old.x + 7 * new.x) \div 10,
                         y |-> (3 * old.y + 7 * new.y) \div 10,
                         width |-> (3 * old.width + 7 * new.width) \div 10,
                         height |-> (3 * old.height + 7 * new.height) \div 10],
        !.velocity = [vx |-> (trackedFace.velocity.vx + (new.x - old.x)) \div 2,
                      vy |-> (trackedFace.velocity.vy + (new.y - old.y)) \div 2],
        !.confidence = IF isUserCorrected THEN 1000 ELSE detection.confidence,
        !.faceScore = detection.faceScore,
        !.gender = IF isUserCorrected THEN @ ELSE detection.gender,
        !.ageGroup = IF isUserCorrected THEN @ ELSE detection.ageGroup,
        !.consecutiveHits = @ + 1,
        !.missedFrames = 0,
        !.genderVotes = newGenderVotes,
        !.ageVotes = newAgeVotes,
        !.stableGender = IF isUserCorrected THEN @
                         ELSE getStableGender(newGenderVotes, @),
        !.stableAgeGroup = IF isUserCorrected THEN @
                           ELSE getStableAgeGroup(newAgeVotes, @)]

ZeroGenderVotes == [male |-> 0, female |-> 0]
ZeroAgeVotes == [kid |-> 0, young |-> 0, adult |-> 0]

\* tracked.set(newId, {...}) for an unmatched detection (lines 1338-1377).
NewTrack(detection) ==
  LET votes == detection.confidence >= MIN_VOTE_CONFIDENCE
  IN  [boundingBox |-> detection.boundingBox,
       velocity |-> [vx |-> 0, vy |-> 0],
       confidence |-> detection.confidence,
       faceScore |-> detection.faceScore,
       gender |-> detection.gender,
       ageGroup |-> detection.ageGroup,
       consecutiveHits |-> 1,
       missedFrames |-> 0,
       genderVotes |-> IF votes
                         THEN [ZeroGenderVotes EXCEPT
                                 ![detection.gender] =
                                    IF detection.gender = "male"
                                      THEN VoteWeight(detection)
                                      ELSE FemaleVote(detection)]
                         ELSE ZeroGenderVotes,
       ageVotes |-> IF votes
                      THEN [ZeroAgeVotes EXCEPT
                              ![detection.ageGroup] = VoteWeight(detection)]
                      ELSE ZeroAgeVotes,
       stableGender |-> detection.gender,
       stableAgeGroup |-> detection.ageGroup,
       isUserCorrected |-> FALSE]

\* session.viewers after the aggregation block of one matched track
\* (lines 1297-1330); trackedFace is the track as it was before this cycle.
ObserveViewer(viewers, id, trackedFace, detection) ==
  IF trackedFace.consecutiveHits < minConsecutiveFrames THEN viewers
  ELSE IF id \in DOMAIN viewers THEN
    LET existing == viewers[id]
        votes == detection.confidence >= MIN_VOTE_CONFIDENCE
        genderVotes ==
          IF votes THEN [existing.genderVotes EXCEPT
                           ![detection.gender] = @ + detection.confidence]
                   ELSE existing.genderVotes
        ageVotes ==
          IF votes THEN [existing.ageVotes EXCEPT
                           ![detection.ageGroup] = @ + detection.confidence]
                   ELSE existing.ageVotes
    IN  [viewers EXCEPT ![id] =
          [genderVotes |-> genderVotes,
           ageVotes |-> ageVotes,
           seenFrames |-> existing.seenFrames + 1,
           bestFaceScore |-> Max(existing.bestFaceScore, detection.faceScore),
           bestConfidence |-> Max(existing.bestConfidence, detection.confidence),
           finalGender |-> getStableGender(genderVotes, existing.finalGender),
           finalAgeGroup |->
             getStableAgeGroup(ageVotes, existing.finalAgeGroup)]]
  ELSE
    [v \in DOMAIN viewers \cup {id} |->
      IF v # id THEN viewers[v]
      ELSE [genderVotes |-> [ZeroGenderVotes EXCEPT
                               ![detection.gender] = detection.confidence],
            ageVotes |-> [ZeroAgeVotes EXCEPT
                            ![detection.ageGroup] = detection.confidence],
            seenFrames |-> 1,
            bestFaceScore |-> detection.faceScore,
            bestConfidence |-> detection.confidence,
            finalGender |-> detection.gender,
            finalAgeGroup |-> detection.ageGroup]]

RECURSIVE ObserveFrom(_, _, _, _, _)
ObserveFrom(ids, viewers, tracked, results, match) ==
  IF ids = << >> THEN viewers
  ELSE LET id == Head(ids)
       IN  ObserveFrom(Tail(ids),
                       IF match[id] = 0 THEN viewers
                       ELSE ObserveViewer(viewers, id, tracked[id],
                                          results[match[id]]),
                       tracked, results, match)

NoSession == [open |-> FALSE]

\* captureSessionRef.current after the cycle (lines 1180-1183, 1297-1330).
SessionAfterCycle(session, tracked, results, match) ==
  IF session = NoSession THEN session
  ELSE [session EXCEPT
         !.frameCount = @ + 1,
         !.viewers = ObserveFrom(IdSeq(DOMAIN tracked), @, tracked, results,
                                 match)]

\* Indices of the detections not in used, in result order.
Unmatched(results, used) ==
  LET F[i \in 0..Len(results)] ==
        IF i = 0 THEN << >>
        ELSE IF i \in used THEN F[i - 1] ELSE Append(F[i - 1], i)
  IN  F[Len(results)]

\* The test guarding the missed-frame block (line 1382).
CountsAsMissed(id, matched, unmatched) ==
  id \notin matched /\ unmatched = << >>

\* The missed-frame block for one track (lines 1383-1389).
MissTrack(trackedFace) ==
  LET missed == trackedFace.missedFrames + 1
  IN  IF 2 * missed <= holdFrames
        THEN [trackedFace EXCEPT
               !.missedFrames = missed,
               !.boundingBox.x = @ + trackedFace.velocity.vx \div 2,
               !.boundingBox.y = @ + trackedFace.velocity.vy \div 2]
        ELSE [trackedFace EXCEPT !.missedFrames = missed]

\* A removal test that lets a track miss one frame more.
RemovedAsStaleLate(trackedFace) ==
  trackedFace.missedFrames > holdFrames + 1

\* The removal test of the missed-frame block (line 1392).
RemovedAsStale(trackedFace) ==
  trackedFace.missedFrames > holdFrames

\* trackedFacesRef.current after the cycle (lines 1185-1396), match being the
\* outcome of the matching loop, matched its matchedIds and unmatched the
\* detections left over; fresh ids start at firstId.
TrackedAfterCycle(tracked, results, match, matched, unmatched, firstId) ==
  LET newIds == {firstId + k - 1 : k \in 1..Len(unmatched)}
      updated ==
        [id \in DOMAIN tracked \cup newIds |->
          IF id \in newIds THEN NewTrack(results[unmatched[id - firstId + 1]])
          ELSE IF match[id] # 0 THEN UpdateTrack(tracked[id], results[match[id]])
          ELSE tracked[id]]
      aged ==
        [id \in DOMAIN updated |->
          IF CountsAsMissed(id, matched, unmatched)
            THEN MissTrack(updated[id]) ELSE updated[id]]
      kept == {id \in DOMAIN aged :
                 ~(/\ CountsAsMissed(id, matched, unmatched)
                   /\ RemovedAsStale(aged[id]))}
  IN  [id \in kept |-> aged[id]]

\* toDetectionResult (geometry and timestamps left out).
toDetectionResult(trackedFace) ==
  [gender |-> trackedFace.stableGender,
   ageGroup |-> trackedFace.stableAgeGroup,
   confidence |-> trackedFace.confidence,
   faceScore |-> trackedFace.faceScore]

\* stableViewers of a cycle (lines 1398-1401), keyed by trackingId.
StableViewers(tracked) ==
  LET stable == {id \in DOMAIN tracked :
                   tracked[id].consecutiveHits >= minConsecutiveFrames}
  IN  [id \in stable |-> toDetectionResult(tracked[id])]

ZeroDemographics ==
  [male |-> 0, female |-> 0, kid |-> 0, young |-> 0, adult |-> 0]

\* CycleDemographics without the minDemographicConfidence filter.
CycleDemographicsUnfiltered(stableViewers) ==
  LET G(g) == Cardinality({id \in DOMAIN stableViewers :
                             stableViewers[id].gender = g})
      A(a) == Cardinality({id \in DOMAIN stableViewers :
                             stableViewers[id].ageGroup = a})
  IN  [male |-> G("male"), female |-> G("female"),
       kid |-> A("kid"), young |-> A("young"), adult |-> A("adult")]

\* newDemographics / zeroDemographics of a cycle (lines 1406-1426).
CycleDemographics(stableViewers) ==
  LET confident == {id \in DOMAIN stableViewers :
                      stableViewers[id].confidence >= minDemographicConfidence}
      G(g) == Cardinality({id \in confident : stableViewers[id].gender = g})
      A(a) == Cardinality({id \in confident : stableViewers[id].ageGroup = a})
  IN  IF DOMAIN stableViewers # {}
        THEN [male |-> G("male"), female |-> G("female"),
              kid |-> A("kid"), young |-> A("young"), adult |-> A("adult")]
        ELSE ZeroDemographics

----------------------------------------------------------------------------
(* Ad catalog and queue (useAdQueue)                                         *)

\* sampleAds, by position: gender and age targets and duration in seconds.
sampleAds ==
  << [gender |-> "male", ageGroup |-> "young", duration |-> 15],
     [gender |-> "female", ageGroup |-> "adult", duration |-> 15],
     [gender |-> "male", ageGroup |-> "young", duration |-> 60],
     [gender |-> "female", ageGroup |-> "young", duration |-> 15],
     [gender |-> "all", ageGroup |-> "adult", duration |-> 53],
     [gender |-> "all", ageGroup |-> "young", duration |-> 60] >>

\* The ad library in use: customAds is empty, so allAds is sampleAds.
NumAds == Len(sampleAds)
allAds == 1..NumAds

dominantGender(d) == IF d.male >= d.female THEN "male" ELSE "female"

dominantAge(d) ==
  IF d.kid >= d.young /\ d.kid >= d.adult THEN "kid"
  ELSE IF d.adult > d.young /\ d.adult > d.kid THEN "adult"
  ELSE "young"

\* The score scoreAd gives to a spot with these targets before the penalty
\* for the spot just played (lines 934-953).
baseScore(gender, ageGroup, d) ==
  LET genderMatches == gender = dominantGender(d) \/ gender = "all"
      ageMatches == ageGroup = dominantAge(d) \/ ageGroup = "all"
  IN  IF gender = dominantGender(d) /\ ageGroup = dominantAge(d) THEN 10
      ELSE IF genderMatches /\ ageMatches THEN 5
      ELSE IF gender = dominantGender(d) THEN 3
      ELSE IF ageGroup = dominantAge(d) THEN 3
      ELSE -5

\* scoreAd (score only), with lastPlayedIdRef.current passed as lastPlayed.
scoreAd(ad, d, lastPlayed) ==
  baseScore(sampleAds[ad].gender, sampleAds[ad].ageGroup, d)
    - (IF ad = lastPlayed THEN 3 ELSE 0)

\* A sort that puts the lowest score first.
SortedByScoreAscending(d, lastPlayed) ==
  LET Rank(a) ==
        Cardinality({b \in allAds :
           \/ scoreAd(b, d, lastPlayed) < scoreAd(a, d, lastPlayed)
           \/ scoreAd(b, d, lastPlayed) = scoreAd(a, d, lastPlayed) /\ b < a}) + 1
  IN  [r \in 1..NumAds |-> CHOOSE a \in allAds : Rank(a) = r]

\* scoredAds.sort((a, b) => b.score - a.score): stable, descending.
SortedByScore(d, lastPlayed) ==
  LET Rank(a) ==
        Cardinality({b \in allAds :
           \/ scoreAd(b, d, lastPlayed) > scoreAd(a, d, lastPlayed)
           \/ scoreAd(b, d, lastPlayed) = scoreAd(a, d, lastPlayed) /\ b < a}) + 1
  IN  [r \in 1..NumAds |-> CHOOSE a \in allAds : Rank(a) = r]

\* reorderQueue: the new queue state (top 2 of the scored library).
reorderQueue(d, lastPlayed) ==
  SubSeq(SortedByScore(d, lastPlayed), 1, Min(2, NumAds))

\* initialAds: the whole library in order.
initialAds == [i \in 1..NumAds |-> i]

\* getNextAd in automatic mode: <<returned ad, queue, lastPlayedIdRef>>.
getNextAd(q, lastPlayed) ==
  IF Len(q) = 0 THEN << initialAds[1], initialAds, 0 >>
  ELSE IF q[1] = lastPlayed /\ Len(q) > 1
    THEN << q[2],
            << q[2] >> \o [i \in 1..(Len(q) - 1) |->
                             IF i = 1 THEN q[1] ELSE q[i + 1]],
            q[2] >>
  ELSE << q[1], Tail(q) \o << q[1] >>, q[1] >>

----------------------------------------------------------------------------
(* Detection pipeline (useFaceDetection): mergeDetections, processDetections,*)
(* dedupeResultsByIoU and the body of detectFaces. A candidate is a record  *)
(* [box, score, pass]: box and score are what the detector call returned,    *)
(* pass records which pass made the call (history, the code keeps no such    *)
(* field). Scale factors are in tenths (2.5 is 25).                          *)

videoWidth == 640
videoHeight == 480

\* The duplicate test of mergeDetections and dedupeResultsByIoU (lines
\* 231-249, 272-287): boxA is the kept box, boxB the candidate's.
IsDuplicate(boxA, boxB, iouThreshold, containmentThreshold) ==
  LET intersection == Intersection(boxA, boxB)
      areaA == boxA.width * boxA.height
      areaB == boxB.width * boxB.height
      union == areaA + areaB - intersection
  IN  \/ union > 0 /\ 1000 * intersection >= iouThreshold * union
      \/ areaB > 0 /\ 1000 * intersection >= containmentThreshold * areaB

\* [...detections].sort((a, b) => getScore(b) - getScore(a)): stable.
SortedCandidates(detections) ==
  LET Rank(k) ==
        Cardinality({j \in 1..Len(detections) :
           \/ detections[j].score > detections[k].score
           \/ detections[j].score = detections[k].score /\ j < k}) + 1
  IN  [r \in 1..Len(detections) |->
         detections[CHOOSE k \in 1..Len(detections) : Rank(k) = r]]

\* The loop over sorted (lines 221-253).
RECURSIVE MergeFrom(_, _, _, _, _)
MergeFrom(sorted, i, merged, iouThreshold, containmentThreshold) ==
  IF i > Len(sorted) THEN merged
  ELSE LET cand == sorted[i]
           isDuplicate ==
             \E k \in 1..Len(merged) :
               IsDuplicate(merged[k].box, cand.box,
                           iouThreshold, containmentThreshold)
       IN  MergeFrom(sorted, i + 1,
                     IF isDuplicate THEN merged ELSE Append(merged, cand),
                     iouThreshold, containmentThreshold)

\* A merge that grows the kept box over the duplicates it absorbs.
mergeDetectionsFusing(detections, iouThreshold, containmentThreshold) ==
  LET sorted == SortedCandidates(detections)
      Hull(boxA, boxB) ==
        [x |-> Min(boxA.x, boxB.x),
         y |-> Min(boxA.y, boxB.y),
         width |-> Max(boxA.x + boxA.width, boxB.x + boxB.width)
                     - Min(boxA.x, boxB.x),
         height |-> Max(boxA.y + boxA.height, boxB.y + boxB.height)
                      - Min(boxA.y, boxB.y)]
      Fuse(merged, cand) ==
        LET dups == {k \in 1..Len(merged) :
                       IsDuplicate(merged[k].box, cand.box,
                                   iouThreshold, containmentThreshold)}
            first == CHOOSE k \in dups : \A j \in dups : k <= j
        IN  IF dups = {} THEN Append(merged, cand)
            ELSE [merged EXCEPT
                    ![first].box = Hull(merged[first].box, cand.box)]
      F[i \in 0..Len(sorted)] ==
        IF i = 0 THEN << >> ELSE Fuse(F[i - 1], sorted[i])
  IN  F[Len(sorted)]

mergeDetections(detections, iouThreshold, containmentThreshold) ==
  MergeFrom(SortedCandidates(detections), 1, << >>,
            iouThreshold, containmentThreshold)

\* box.x / scaleBack and the like; the frames of the model keep the
\* quotients whole.
ScaledBack(v, scaleBack) == (10 * v) \div scaleBack

\* The filter of processDetections (lines 373-433) under the CCTV defaults:
\* requiredMinScore = max(hardMinFaceScore ?? 0.15, minFaceScore 0.1),
\* minFaceSizePx 12, minFaceSizePercent 0.05, aspect ratio in [0.25, 4],
\* no ROI, no texture check.
PassesFilter(detection, scaleBack) ==
  LET box == detection.box
      faceWidth == ScaledBack(box.width, scaleBack)
      faceHeight == ScaledBack(box.height, scaleBack)
      faceX == ScaledBack(box.x, scaleBack)
      faceY == ScaledBack(box.y, scaleBack)
      frame == videoWidth * videoHeight
  IN  /\ ~(detection.score < 150)
      /\ ~(faceWidth < 12 \/ faceHeight < 12)
      /\ ~(10000 * faceWidth * faceHeight < 5 * frame)
      /\ ~(100 * faceWidth * faceHeight > 35 * frame)
      /\ ~(4 * faceWidth < faceHeight \/ faceWidth > 4 * faceHeight)
      /\ ~(\/ faceX < 0 \/ faceY < 0
            \/ faceX + faceWidth > videoWidth
            \/ faceY + faceHeight > videoHeight)

\* The DetectionResult built for a detection that passed (lines 434-492);
\* gender, age group and confidence are left out, raw and pass keep the
\* candidate the result was made from.
FilteredResult(detection, scaleBack) ==
  LET box == detection.box
  IN  [boundingBox |->
         [x |-> Max(0, ScaledBack(box.x, scaleBack)),
          y |-> Max(0, ScaledBack(box.y, scaleBack)),
          width |-> Min(ScaledBack(box.width, scaleBack),
                        videoWidth - ScaledBack(box.x, scaleBack)),
          height |-> Min(ScaledBack(box.height, scaleBack),
                         videoHeight - ScaledBack(box.y, scaleBack))],
       faceScore |-> detection.score,
       raw |-> box,
       pass |-> detection.pass]

\* processDetections: results (lines 372-492).
processDetections(detections, scaleBack) ==
  LET F[i \in 0..Len(detections)] ==
        IF i = 0 THEN << >>
        ELSE IF PassesFilter(detections[i], scaleBack)
          THEN Append(F[i - 1], FilteredResult(detections[i], scaleBack))
          ELSE F[i - 1]
  IN  F[Len(detections)]

\* dedupeResultsByIoU (lines 259-294).
SortedResults(results) ==
  LET Rank(k) ==
        Cardinality({j \in 1..Len(results) :
           \/ results[j].faceScore > results[k].faceScore
           \/ results[j].faceScore = results[k].faceScore /\ j < k}) + 1
  IN  [r \in 1..Len(results) |->
         results[CHOOSE k \in 1..Len(results) : Rank(k) = r]]

RECURSIVE DedupeFrom(_, _, _)
DedupeFrom(sorted, i, kept) ==
  IF i > Len(sorted) THEN kept
  ELSE LET r == sorted[i]
           dup == \E k \in 1..Len(kept) :
                    IsDuplicate(kept[k].boundingBox, r.boundingBox, 600, 900)
       IN  DedupeFrom(sorted, i + 1, IF dup THEN kept ELSE Append(kept, r))

dedupeResultsByIoU(results) ==
  IF Len(results) <= 1 THEN results
  ELSE DedupeFrom(SortedResults(results), 1, << >>)

\* The pre-filter of Pass 3 (lines 719-750), pass3MinCandidateScore being
\* max(minFaceScore, hardFloor, 0.20) = 0.20.
StrongCandidate(d) ==
  LET actualWidth == ScaledBack(d.box.width, 25)
      actualHeight == ScaledBack(d.box.height, 25)
  IN  /\ ~(d.score < 200)
      /\ d.box.width # 0 /\ d.box.height # 0
      /\ ~(actualWidth < 12 \/ actualHeight < 12)
      /\ ~(100 * actualWidth * actualHeight > 30 * videoWidth * videoHeight)
      /\ ~(4 * actualWidth < actualHeight \/ actualWidth > 4 * actualHeight)

strongCandidates(pass3Detections) ==
  LET F[i \in 0..Len(pass3Detections)] ==
        IF i = 0 THEN << >>
        ELSE IF StrongCandidate(pass3Detections[i])
          THEN Append(F[i - 1], pass3Detections[i]) ELSE F[i - 1]
  IN  F[Len(pass3Detections)]

\* detections and scaleBack after Pass 2 (lines 612-689), mergedPass1 and
\* mergedPass2 being the merged output of the two passes.
AfterPass2(config, mergedPass1, mergedPass2) ==
  LET shouldRunPass2 ==
        /\ config.isCCTV /\ config.detector # "tiny"
        /\ (Len(mergedPass1) < 3 \/ config.enableEnhancedRescue)
  IN  [detections |->
         IF shouldRunPass2 /\ Len(mergedPass2) > 0
           THEN mergeDetections(mergedPass1 \o mergedPass2, 550, 850)
           ELSE mergedPass1,
       scaleBack |-> IF shouldRunPass2 THEN config.upscale ELSE 10,
       passUsed |-> IF shouldRunPass2 THEN 2 ELSE 1]

\* detections and scaleBack after Pass 3 (lines 691-766).
AfterPass3(config, after2, mergedPass3) ==
  LET shouldRunPass3 ==
        /\ config.isCCTV /\ config.detector # "tiny"
        /\ Len(after2.detections) < 5 /\ config.enableEnhancedRescue
  IN  IF shouldRunPass3 /\ Len(mergedPass3) > 0
        THEN [detections |->
                mergeDetections(after2.detections \o mergedPass3, 600, 900),
              scaleBack |-> 25,
              passUsed |-> after2.passUsed]
        ELSE after2

\* What the detection body returns and the passUsed it reports (lines
\* 522-812) when the detector calls of the three passes yield pass1, pass2
\* and pass3.
DetectionBody(config, pass1, pass2, pass3) ==
  LET after2 == AfterPass2(config, mergeDetections(pass1, 550, 850),
                           mergeDetections(pass2, 550, 850))
      after3 == AfterPass3(config, after2,
                           mergeDetections(strongCandidates(pass3), 600, 900))
  IN  [results |-> dedupeResultsByIoU(
                     processDetections(after3.detections, after3.scaleBack)),
       passUsed |-> after3.passUsed]

----------------------------------------------------------------------------
(* Inputs of the model                                                       *)

Box(x) == [x |-> x, y |-> 0, width |-> 100, height |-> 100]

Det(x, g, a, c) ==
  [boundingBox |-> Box(x), gender |-> g, ageGroup |-> a,
   confidence |-> c, faceScore |-> 900]

\* What one detectFaces call can resolve to: no face, or one face in front
\* of the camera, at the left (x = 0 or 40) or far to the right (x = 300).
ResultChoices ==
  { << >>,
    << Det(0, "male", "young", 800) >>,
    << Det(0, "female", "adult", 800) >>,
    << Det(40, "female", "adult", 600) >>,
    << Det(300, "male", "young", 800) >> }

\* The results of the playback runs.
PlaybackResults ==
  { << >>,
    << Det(0, "male", "young", 800) >>,
    << Det(0, "male", "young", 700) >> }

\* captureSettings.startPercent / endPercent as the operator may set them.
SettingsChoices ==
  { [startPercent |-> 60, endPercent |-> 100],
    [startPercent |-> 60, endPercent |-> 80] }

\* The ground-truth entries the operator may save for a shown detection.
LabelChoices ==
  { [isFalsePositive |-> TRUE, actualGender |-> "male",
     actualAgeGroup |-> "young"],
    [isFalsePositive |-> FALSE, actualGender |-> "female",
     actualAgeGroup |-> "adult"],
    [isFalsePositive |-> FALSE, actualGender |-> "male",
     actualAgeGroup |-> "kid"] }

Empty == [x \in {} |-> 0]
NoCycle == [running |-> FALSE]
NoSummary == [made |-> FALSE]
NoCall == [called |-> FALSE]
NoDetection == [done |-> FALSE]

----------------------------------------------------------------------------
(* Capture window and session summary (the capture-window effect)            *)

captureStart(ad) ==
  (sampleAds[ad].duration * captureSettings.startPercent) \div 100
captureEnd(ad) ==
  (sampleAds[ad].duration * captureSettings.endPercent) \div 100

inCaptureWindow(ad, time) ==
  time >= captureStart(ad) /\ time <= captureEnd(ad)

\* stableViewers without the seenFrames filter.
QualifiedViewersAnyFrames(session) ==
  {v \in DOMAIN session.viewers :
     session.viewers[v].bestConfidence >= minDemographicConfidence}

\* stableViewers of the closing session (lines 1683-1685).
QualifiedViewers(session) ==
  {v \in DOMAIN session.viewers :
     /\ session.viewers[v].seenFrames >= MIN_FRAMES_FOR_SESSION
     /\ session.viewers[v].bestConfidence >= minDemographicConfidence}

\* A summary counted from the faces tracked at close instead of the
\* session's aggregates.
SessionSummaryOfTracks(session) ==
  LET stable == {id \in DOMAIN trackedFaces :
                   trackedFaces[id].confidence >= minDemographicConfidence}
      G(g) == Cardinality({v \in stable : trackedFaces[v].stableGender = g})
      A(a) == Cardinality({v \in stable : trackedFaces[v].stableAgeGroup = a})
  IN  [made |-> TRUE,
       totalFrames |-> session.frameCount,
       uniqueViewers |-> Cardinality(stable),
       demographics |-> [male |-> G("male"), female |-> G("female"),
                         kid |-> A("kid"), young |-> A("young"),
                         adult |-> A("adult")],
       viewers |-> [v \in stable |-> trackedFaces[v]]]

\* The CaptureSessionSummary built at close (lines 1688-1704).
SessionSummary(session) ==
  LET stable == QualifiedViewers(session)
      G(g) == Cardinality({v \in stable : session.viewers[v].finalGender = g})
      A(a) == Cardinality({v \in stable : session.viewers[v].finalAgeGroup = a})
  IN  [made |-> TRUE,
       totalFrames |-> session.frameCount,
       uniqueViewers |-> Cardinality(stable),
       demographics |-> [male |-> G("male"), female |-> G("female"),
                         kid |-> A("kid"), young |-> A("young"),
                         adult |-> A("adult")],
       viewers |-> [v \in stable |-> session.viewers[v]]]

\* The close of 13.3 Session Completion: reorderQueue whatever the counts.
ShouldReorderAlways(sessionDemographics) == TRUE

\* The guard of the reorderQueue call at close (line 1714).
ShouldReorder(sessionDemographics) ==
  sessionDemographics.male + sessionDemographics.female > 0

\* The capture-window effect (lines 1635-1727), run after a handler has
\* brought its dependencies to (ad, time, manual); capturing, armed, demo,
\* viewers and q are isCapturingRef, the interval, demographics,
\* currentViewers and the queue as that handler left them; left says that the
\* handler took playback out of the capture window.
CaptureWindowEffect(ad, time, manual, capturing, armed, demo, viewers, q, left) ==
  LET inWindow == inCaptureWindow(ad, time)
      owed == IF left /\ captureSession # NoSession /\ unfinalized = "no"
                THEN "owed" ELSE unfinalized
  IN  IF ~manual /\ inWindow /\ ~capturing THEN
        /\ pendingStarts < MaxPendingStarts
        /\ isCapturing' = TRUE
        /\ intervalArmed' = armed
        /\ demographics' = ZeroDemographics
        /\ currentViewers' = Empty
        /\ pendingStarts' = pendingStarts + 1
        /\ queue' = q
        /\ reorderCall' = NoCall
        /\ unfinalized' = IF owed = "owed" THEN "missed" ELSE owed
        /\ UNCHANGED << captureSession, lastSessionSummary >>
      ELSE IF ~manual /\ ~inWindow /\ capturing THEN
        /\ isCapturing' = FALSE
        /\ intervalArmed' = FALSE
        /\ demographics' = demo
        /\ currentViewers' = viewers
        /\ UNCHANGED pendingStarts
        /\ IF captureSession # NoSession
             THEN LET summary == SessionSummary(captureSession)
                  IN  /\ lastSessionSummary' = summary
                      /\ IF ShouldReorder(summary.demographics)
                           THEN /\ queue' = reorderQueue(summary.demographics,
                                                         lastPlayedId')
                                /\ reorderCall' = [called |-> TRUE,
                                                   demographics |->
                                                     summary.demographics]
                           ELSE /\ queue' = q
                                /\ reorderCall' = NoCall
                      /\ captureSession' = NoSession
                      /\ unfinalized' =
                           IF unfinalized = "missed" THEN "missed" ELSE "no"
             ELSE /\ queue' = q
                  /\ reorderCall' = NoCall
                  /\ unfinalized' = owed
                  /\ UNCHANGED << captureSession, lastSessionSummary >>
      ELSE
        /\ isCapturing' = capturing
        /\ intervalArmed' = armed
        /\ demographics' = demo
        /\ currentViewers' = viewers
        /\ queue' = q
        /\ reorderCall' = NoCall
        /\ unfinalized' = owed
        /\ UNCHANGED << pendingStarts, captureSession, lastSessionSummary >>

----------------------------------------------------------------------------
(* State machine                                                             *)

\* The system after construction, whatever is in front of the detectors.
InitSystem ==
  /\ trackedFaces = Empty
  /\ nextId = 1
  /\ captureSession = NoSession
  /\ currentViewers = Empty
  /\ demographics = ZeroDemographics
  /\ isCapturing = FALSE
  /\ intervalArmed = FALSE
  /\ inFlight = FALSE
  /\ cycle = NoCycle
  /\ abandoned = 0
  /\ testMode = FALSE
  /\ manualMode = FALSE
  /\ sourceStarting = FALSE
  /\ pendingStarts = 0
  /\ currentTime = 0
  /\ currentAd = 1
  /\ queue = initialAds
  /\ lastPlayedId = 0
  /\ lastSessionSummary = NoSummary
  /\ reorderCall = NoCall
  /\ unfinalized = "no"
  /\ captureSettings \in SettingsChoices
  /\ ticks = 0
  /\ falsePositives = {}

Init ==
  /\ InitSystem
  /\ lastDetection = NoDetection

detectionVars == << inFlight, cycle, abandoned >>
modeVars == << testMode, manualMode, sourceStarting >>
playbackVars == << currentTime, currentAd, lastPlayedId, captureSettings >>
trackerVars == << trackedFaces, nextId, captureSession >>

\* The body of the interval callback after `await detectFaces(...)` has
\* yielded results (lines 1176-1426).
TrackerStep(results, match, unmatched) ==
  /\ trackedFaces' = TrackedAfterCycle(trackedFaces, results, match,
                                       matchedIds(match), unmatched, nextId)
  /\ nextId' = nextId + Len(unmatched)
  /\ captureSession' =
       SessionAfterCycle(captureSession, trackedFaces, results, match)
  /\ currentViewers' = StableViewers(trackedFaces')
  /\ demographics' = CycleDemographics(currentViewers')

TrackerMatched(results, match) ==
  TrackerStep(results, match, Unmatched(results, usedDetections(match)))

RunTracker(results) ==
  TrackerMatched(results, Matching(trackedFaces, results))

\* An interval tick whose detectFaces call starts a detection body
\* (lines 1170-1174, 506-522).
TickStartsCycle ==
  /\ intervalArmed /\ isCapturing
  /\ ~inFlight
  /\ inFlight' = TRUE
  /\ cycle' = [running |-> TRUE, switched |-> FALSE, labelled |-> FALSE]
  /\ ticks' = ticks + 1
  /\ UNCHANGED << lastDetection, falsePositives >>
  /\ reorderCall' = NoCall
  /\ UNCHANGED << trackerVars, currentViewers, demographics, isCapturing,
                  intervalArmed, abandoned, modeVars,
                  pendingStarts, playbackVars, queue, lastSessionSummary,
                  unfinalized >>

\* An interval tick whose detectFaces call returns [] at once: a detection
\* is in flight (line 506) or the video or the models are not ready (line 510).
TickReturnsEmpty ==
  /\ intervalArmed /\ isCapturing
  /\ RunTracker(<< >>)
  /\ ticks' = ticks + 1
  /\ UNCHANGED << lastDetection, falsePositives >>
  /\ reorderCall' = NoCall
  /\ UNCHANGED << isCapturing, intervalArmed, detectionVars, modeVars,
                  pendingStarts, playbackVars, queue, lastSessionSummary,
                  unfinalized >>

\* The detection body resolves before the timeout (lines 796-821).
CycleCompletes(results) ==
  /\ cycle # NoCycle
  /\ inFlight' = FALSE
  /\ cycle' = NoCycle
  /\ RunTracker(results)
  /\ reorderCall' = NoCall
  /\ UNCHANGED << isCapturing, intervalArmed, abandoned, modeVars,
                  pendingStarts, playbackVars, queue, lastSessionSummary,
                  unfinalized, ticks, lastDetection,
                  falsePositives >>

\* The detection body throws (lines 816-821).
CycleFails ==
  /\ cycle # NoCycle
  /\ inFlight' = FALSE
  /\ cycle' = NoCycle
  /\ RunTracker(<< >>)
  /\ reorderCall' = NoCall
  /\ UNCHANGED << isCapturing, intervalArmed, abandoned, modeVars,
                  pendingStarts, playbackVars, queue, lastSessionSummary,
                  unfinalized, ticks, lastDetection,
                  falsePositives >>

\* A timeout path that leaves inFlightRef set.
FlagKeptAfterTimeout == TRUE

\* What the timeout does to inFlightRef (the finally of line 820).
FlagAfterTimeout == FALSE

\* DETECTION_TIMEOUT expires first: the race rejects, detectFaces returns []
\* and the body goes on running (lines 517-520, 814-821).
CycleTimesOut ==
  /\ cycle # NoCycle
  /\ abandoned < MaxAbandoned
  /\ inFlight' = FlagAfterTimeout
  /\ cycle' = NoCycle
  /\ abandoned' = abandoned + 1
  /\ RunTracker(<< >>)
  /\ reorderCall' = NoCall
  /\ UNCHANGED << isCapturing, intervalArmed, modeVars,
                  pendingStarts, playbackVars, queue, lastSessionSummary,
                  unfinalized, ticks, lastDetection,
                  falsePositives >>

\* A body abandoned by its timeout reaches its end: merge, filter and the
\* write of debugInfoRef (lines 768-811).
AbandonedBodyFinishes ==
  /\ abandoned > 0
  /\ abandoned' = abandoned - 1
  /\ reorderCall' = NoCall
  /\ UNCHANGED << trackerVars, currentViewers, demographics, isCapturing,
                  intervalArmed, inFlight, cycle, modeVars, pendingStarts,
                  playbackVars, queue, lastSessionSummary, unfinalized, ticks, lastDetection,
                  falsePositives >>

\* startDetectionLoop, run by one of the scheduled calls (lines 1154-1170).
startDetectionLoop ==
  /\ pendingStarts > 0
  /\ pendingStarts' = pendingStarts - 1
  /\ trackedFaces' = Empty
  /\ captureSession' = [open |-> TRUE, frameCount |-> 0, viewers |-> Empty]
  /\ intervalArmed' = TRUE
  /\ reorderCall' = NoCall
  /\ UNCHANGED << nextId, currentViewers, demographics, isCapturing,
                  detectionVars, modeVars, playbackVars, queue,
                  lastSessionSummary, unfinalized, ticks, lastDetection >>
  /\ falsePositives' = {}

\* startDetectionWithSource up to `await sourceStarter()` (lines 1438-1469).
SelectSource ==
  /\ ~sourceStarting
  /\ intervalArmed' = IF testMode \/ isCapturing THEN FALSE ELSE intervalArmed
  /\ isCapturing' = IF testMode \/ isCapturing THEN FALSE ELSE isCapturing
  /\ testMode' = TRUE
  /\ demographics' = ZeroDemographics
  /\ currentViewers' = Empty
  /\ sourceStarting' = TRUE
  /\ cycle' = IF cycle # NoCycle THEN [cycle EXCEPT !.switched = TRUE]
                                 ELSE cycle
  /\ reorderCall' = NoCall
  /\ UNCHANGED << trackerVars, inFlight, abandoned, manualMode,
                  pendingStarts, playbackVars, queue, lastSessionSummary,
                  unfinalized, ticks, lastDetection,
                  falsePositives >>

\* startDetectionWithSource after `await sourceStarter()` (lines 1469-1481).
SourceStarted(success) ==
  /\ sourceStarting
  /\ sourceStarting' = FALSE
  /\ IF success
       THEN /\ pendingStarts < MaxPendingStarts
            /\ isCapturing' = TRUE
            /\ pendingStarts' = pendingStarts + 1
            /\ UNCHANGED testMode
       ELSE /\ testMode' = FALSE
            /\ UNCHANGED << isCapturing, pendingStarts >>
  /\ reorderCall' = NoCall
  /\ UNCHANGED << trackerVars, currentViewers, demographics, intervalArmed,
                  detectionVars, manualMode, playbackVars, queue,
                  lastSessionSummary, unfinalized, ticks, lastDetection,
                  falsePositives >>

\* stopTestMode (lines 1502-1515).
stopTestMode ==
  /\ testMode
  /\ intervalArmed' = FALSE
  /\ isCapturing' = FALSE
  /\ testMode' = FALSE
  /\ currentViewers' = Empty
  /\ reorderCall' = NoCall
  /\ UNCHANGED << trackerVars, demographics, detectionVars, manualMode,
                  sourceStarting, pendingStarts, playbackVars, queue,
                  lastSessionSummary, unfinalized, ticks, lastDetection,
                  falsePositives >>

\* handleManualModeToggle and the capture-window effect its setManualMode
\* triggers (lines 1518-1536).
handleManualModeToggle(enabled) ==
  /\ enabled # manualMode
  /\ manualMode' = enabled
  /\ testMode' = IF enabled THEN FALSE ELSE testMode
  /\ UNCHANGED << trackedFaces, nextId, detectionVars, sourceStarting,
                  playbackVars, ticks, lastDetection,
                  falsePositives >>
  /\ IF enabled
       THEN /\ isCapturing' = FALSE
            /\ intervalArmed' = IF testMode \/ isCapturing THEN FALSE
                                                           ELSE intervalArmed
            /\ demographics' = ZeroDemographics
            /\ currentViewers' = Empty
            /\ reorderCall' = NoCall
            /\ UNCHANGED << pendingStarts, queue, lastSessionSummary,
                            unfinalized, captureSession >>
       ELSE CaptureWindowEffect(currentAd, currentTime, FALSE, isCapturing,
                                intervalArmed, demographics, currentViewers,
                                queue, FALSE)

\* The track a gender/age correction leaves (lines 1589-1608).
CorrectedTrack(trackedFace, actualGender, actualAgeGroup) ==
  [trackedFace EXCEPT
     !.genderVotes = [ZeroGenderVotes EXCEPT ![actualGender] = correctionWeight],
     !.ageVotes = [ZeroAgeVotes EXCEPT ![actualAgeGroup] = correctionWeight],
     !.stableGender = actualGender,
     !.stableAgeGroup = actualAgeGroup,
     !.gender = actualGender,
     !.ageGroup = actualAgeGroup,
     !.isUserCorrected = TRUE,
     !.confidence = 1000,
     !.faceScore = 1000]

\* updatedDetections of handleLabelDetection (lines 1615-1625).
LabelledViewers(tracked) ==
  LET shown == {id \in DOMAIN tracked : tracked[id].consecutiveHits >= 2}
  IN  [id \in shown |->
        [gender |-> tracked[id].stableGender,
         ageGroup |-> tracked[id].stableAgeGroup,
         confidence |-> IF tracked[id].isUserCorrected
                          THEN 1000 ELSE tracked[id].confidence,
         faceScore |-> IF tracked[id].isUserCorrected
                         THEN 1000 ELSE tracked[id].faceScore]]

\* handleLabelDetection on a live track (lines 1580-1626), called with the
\* trackingId of a detection the preview shows (currentViewers); the
\* evaluation log it also writes is left out.
handleLabelDetection(id, isFalsePositive, actualGender, actualAgeGroup) ==
  /\ id \in DOMAIN currentViewers
  /\ id \in DOMAIN trackedFaces
  /\ trackedFaces' =
       IF isFalsePositive
         THEN [t \in DOMAIN trackedFaces \ {id} |-> trackedFaces[t]]
         ELSE [trackedFaces EXCEPT
                 ![id] = CorrectedTrack(@, actualGender, actualAgeGroup)]
  /\ currentViewers' = LabelledViewers(trackedFaces')
  /\ cycle' = IF cycle # NoCycle /\ isFalsePositive
                THEN [cycle EXCEPT !.labelled = TRUE] ELSE cycle
  /\ reorderCall' = NoCall
  /\ UNCHANGED << nextId, captureSession, demographics, isCapturing,
                  intervalArmed, inFlight, abandoned, modeVars,
                  pendingStarts, playbackVars, queue, lastSessionSummary,
                  unfinalized, ticks, lastDetection >>
  /\ falsePositives' =
       IF isFalsePositive /\ captureSession # NoSession
         THEN falsePositives \cup {id} ELSE falsePositives

\* Playback positions the player reports for an ad: the start of its capture
\* window and the first second after it.
TimePoints(ad) ==
  {t \in {captureStart(ad), captureEnd(ad) + 1} : t <= sampleAds[ad].duration}

\* handleTimeUpdate and the capture-window effect (lines 1739-1741).
handleTimeUpdate(time) ==
  /\ time \in TimePoints(currentAd) /\ time > currentTime
  /\ currentTime' = time
  /\ UNCHANGED << trackedFaces, nextId, detectionVars, modeVars, currentAd,
                  lastPlayedId, captureSettings, ticks, lastDetection,
                  falsePositives >>
  /\ CaptureWindowEffect(currentAd, time, manualMode, isCapturing,
                         intervalArmed, demographics, currentViewers, queue,
                         inCaptureWindow(currentAd, currentTime)
                           /\ ~inCaptureWindow(currentAd, time))

\* handleAdEnded (the ad ends or is skipped) and the capture-window effect
\* (lines 1764-1787).
handleAdEnded ==
  LET next == getNextAd(queue, lastPlayedId)
  IN  /\ currentAd' = next[1]
      /\ lastPlayedId' = next[3]
      /\ currentTime' = 0
      /\ UNCHANGED << trackedFaces, nextId, detectionVars, modeVars,
                      captureSettings, ticks, lastDetection,
                  falsePositives >>
      /\ CaptureWindowEffect(next[1], 0, manualMode, FALSE, FALSE,
                             demographics, currentViewers, next[2],
                             inCaptureWindow(currentAd, currentTime))

\* The detection loop under test-mode control, with playback standing still.
Next ==
  \/ ticks < MaxTicks /\ TickStartsCycle
  \/ ticks < MaxTicks /\ TickReturnsEmpty
  \/ \E results \in ResultChoices : CycleCompletes(results)
  \/ CycleFails
  \/ CycleTimesOut
  \/ AbandonedBodyFinishes
  \/ startDetectionLoop
  \/ SelectSource
  \/ \E success \in BOOLEAN : SourceStarted(success)
  \/ stopTestMode
  \/ \E id \in DOMAIN trackedFaces, label \in LabelChoices :
        handleLabelDetection(id, label.isFalsePositive, label.actualGender,
                             label.actualAgeGroup)

Spec == Init /\ [][Next]_vars

\* Ad playback driving the capture window, with one viewer in front of the
\* camera or nobody.
NextPlayback ==
  \/ ticks < MaxPlaybackTicks /\ TickStartsCycle
  \/ ticks < MaxPlaybackTicks /\ TickReturnsEmpty
  \/ \E results \in PlaybackResults : CycleCompletes(results)
  \/ CycleFails
  \/ startDetectionLoop
  \/ \E enabled \in BOOLEAN : handleManualModeToggle(enabled)
  \/ \E time \in 0..60 : handleTimeUpdate(time)
  \/ handleAdEnded

SpecPlayback == Init /\ [][NextPlayback]_vars

\* The results of the single-session runs: nobody, a strong male/young
\* face, or a weaker female/adult face at the same place.
SessionResults ==
  { << >>,
    << Det(0, "male", "young", 900) >>,
    << Det(0, "female", "adult", 700) >> }

MaxSessionTicks == 5

\* One capture session from its opening to its close: playback enters the
\* capture window, the loop runs its cycles, playback leaves the window.
NextSession ==
  \/ ticks < MaxSessionTicks /\ TickStartsCycle
  \/ \E results \in SessionResults : CycleCompletes(results)
  \/ startDetectionLoop
  \/ \E time \in 0..60 : handleTimeUpdate(time)

SpecSession == Init /\ [][NextSession]_vars

\* The demographic counts reorderQueue is called with: every count from 0 to
\* MaxCount, and the counts of a mostly male, mostly young audience.
MaxCount == 1
DemographicsChoices ==
  [male : 0..MaxCount, female : 0..MaxCount, kid : 0..MaxCount,
   young : 0..MaxCount, adult : 0..MaxCount]
    \cup {[male |-> 5, female |-> 1, kid |-> 0, young |-> 4, adult |-> 1]}

\* reorderQueue(demographics) of useAdQueue (part_005 lines 964-1000).
reorderQueueCalled(d) ==
  /\ queue' = reorderQueue(d, lastPlayedId)
  /\ reorderCall' = [called |-> TRUE, demographics |-> d]
  /\ UNCHANGED << trackerVars, currentViewers, demographics, isCapturing,
                  intervalArmed, detectionVars, modeVars, pendingStarts,
                  playbackVars, lastSessionSummary, unfinalized, ticks, lastDetection,
                  falsePositives >>

\* The ad queue on its own: ads end one after the other and the queue is
\* reordered for the audiences counted in between.
NextQueue ==
  \/ \E d \in DemographicsChoices : reorderQueueCalled(d)
  \/ handleAdEnded

SpecQueue == Init /\ [][NextQueue]_vars

\* The thresholds of the detector calls (lines 554, 565, 654), in
\* thousandths.
pass1Threshold(sensitivity) == Max(Max(sensitivity - 50, 150) - 50, 100)
rescueThreshold(sensitivity) == Max(sensitivity - 100, 120)
ultraLowThreshold == 80

\* The faces in front of the camera as the detector calls of one frame
\* report them, in frame pixels: a face, the same face as another input
\* size reports it, and a second face; with the score of each report.
FrameFaces ==
  << [box |-> [x |-> 100, y |-> 100, width |-> 80, height |-> 80],
      score |-> 900],
     [box |-> [x |-> 110, y |-> 100, width |-> 80, height |-> 80],
      score |-> 850],
     [box |-> [x |-> 300, y |-> 200, width |-> 80, height |-> 80],
      score |-> 800] >>

\* What the detector calls of a pass return (detectAllFaces on a canvas
\* scaled by scale, lines 297-328): the faces of seen that reach the score
\* threshold, in canvas pixels.
DetectorOutput(seen, scale, threshold, pass) ==
  LET Report(i) ==
        [box |-> [x |-> (FrameFaces[i].box.x * scale) \div 10,
                  y |-> (FrameFaces[i].box.y * scale) \div 10,
                  width |-> (FrameFaces[i].box.width * scale) \div 10,
                  height |-> (FrameFaces[i].box.height * scale) \div 10],
         score |-> FrameFaces[i].score,
         pass |-> pass]
      F[i \in 0..Len(FrameFaces)] ==
        IF i = 0 THEN << >>
        ELSE IF i \in seen /\ FrameFaces[i].score >= threshold
          THEN Append(F[i - 1], Report(i)) ELSE F[i - 1]
  IN  F[Len(FrameFaces)]

\* getConfig() in CCTV mode with SSD loaded: detectionMode sets upscale to
\* 1.0, 2.0 (default) or 2.5.
DetectionConfigs ==
  [isCCTV : {TRUE}, detector : {"dual"}, upscale : {10, 20, 25},
   enableEnhancedRescue : BOOLEAN,
   sensitivity : {150, 200, 250, 300, 400, 500}]

\* A frame in front of the detectors, not yet processed.
InitDetect ==
  /\ InitSystem
  /\ lastDetection \in
       [done : {FALSE}, config : DetectionConfigs,
        seen1 : SUBSET (1..Len(FrameFaces)),
        seen2 : SUBSET (1..Len(FrameFaces)),
        seen3 : SUBSET (1..Len(FrameFaces)),
        results : {<< >>}, passUsed : {0},
        pass1Threshold : {0}, rescueThreshold : {0}]

\* The detection body of detectFaces runs on the frame (lines 522-812).
detectionBody ==
  /\ ~lastDetection.done
  /\ LET config == lastDetection.config
         pass1 == DetectorOutput(lastDetection.seen1, 10,
                                 pass1Threshold(config.sensitivity), 1)
         pass2 == DetectorOutput(lastDetection.seen2, config.upscale,
                                 rescueThreshold(config.sensitivity), 2)
         pass3 == DetectorOutput(lastDetection.seen3, 25, ultraLowThreshold, 3)
         body == DetectionBody(config, pass1, pass2, pass3)
     IN  lastDetection' =
           [lastDetection EXCEPT
              !.done = TRUE,
              !.results = body.results,
              !.passUsed = body.passUsed,
              !.pass1Threshold = pass1Threshold(config.sensitivity),
              !.rescueThreshold = rescueThreshold(config.sensitivity)]
  /\ UNCHANGED falsePositives
  /\ UNCHANGED << trackerVars, currentViewers, demographics, isCapturing,
                  intervalArmed, detectionVars, modeVars, pendingStarts,
                  playbackVars, queue, lastSessionSummary, reorderCall,
                  unfinalized, ticks >>

SpecDetect == InitDetect /\ [][detectionBody]_vars

\* One capture session during which the operator labels the detections
\* shown: a correction of gender and age, or a false positive.
NextLabelledSession ==
  \/ ticks < MaxSessionTicks /\ TickStartsCycle
  \/ \E results \in SessionResults : CycleCompletes(results)
  \/ startDetectionLoop
  \/ \E time \in 0..60 : handleTimeUpdate(time)
  \/ \E id \in DOMAIN trackedFaces, label \in LabelChoices :
        handleLabelDetection(id, label.isFalsePositive, label.actualGender,
                             label.actualAgeGroup)

SpecLabelledSession == Init /\ [][NextLabelledSession]_vars

MaxLiveTicks == 2

\* Detection on a test source while the ads keep playing: the handlers of
\* test mode and those of playback act on the same loop.
NextLive ==
  \/ ticks < MaxLiveTicks /\ TickStartsCycle
  \/ \E results \in SessionResults : CycleCompletes(results)
  \/ startDetectionLoop
  \/ SelectSource
  \/ \E success \in BOOLEAN : SourceStarted(success)
  \/ stopTestMode
  \/ \E enabled \in BOOLEAN : handleManualModeToggle(enabled)
  \/ \E time \in 0..60 : handleTimeUpdate(time)
  \/ handleAdEnded

SpecLive == Init /\ [][NextLive]_vars

\* The results of the matcher runs: up to two faces out of four places, 60,
\* 120 and 300 pixels apart.
MatchFaces ==
  { Det(0, "male", "young", 800), Det(60, "female", "adult", 800),
    Det(120, "male", "young", 800), Det(300, "female", "adult", 800) }

MatchResults ==
  { << >> } \cup { << a >> : a \in MatchFaces }
    \cup { << p[1], p[2] >> :
             p \in { q \in MatchFaces \X MatchFaces : q[1] # q[2] } }

MaxMatchTicks == 2

\* The detection loop on a test source, fed with one or two faces a cycle.
NextMatch ==
  \/ ticks < MaxMatchTicks /\ TickStartsCycle
  \/ \E results \in MatchResults : CycleCompletes(results)
  \/ startDetectionLoop
  \/ SelectSource
  \/ \E success \in BOOLEAN : SourceStarted(success)

SpecMatch == Init /\ [][NextMatch]_vars

\* Candidates handed to a merge: three overlapping boxes 20 pixels apart, a
\* small box inside the first, and a box far from the others.
MergeCandidates ==
  { [box |-> [x |-> 0, y |-> 0, width |-> 100, height |-> 100], score |-> 900],
    [box |-> [x |-> 20, y |-> 0, width |-> 100, height |-> 100], score |-> 800],
    [box |-> [x |-> 40, y |-> 0, width |-> 100, height |-> 100], score |-> 850],
    [box |-> [x |-> 10, y |-> 10, width |-> 30, height |-> 30], score |-> 950],
    [box |-> [x |-> 300, y |-> 200, width |-> 100, height |-> 100],
     score |-> 900] }

MaxCandidates == 3

RECURSIVE CandidateLists(_)
CandidateLists(n) ==
  IF n = 0 THEN { << >> }
  ELSE LET shorter == CandidateLists(n - 1)
       IN  shorter \cup
             { Append(l, c) : l \in {m \in shorter : Len(m) = n - 1},
                              c \in MergeCandidates }

\* The threshold pairs the calls of mergeDetections use: the defaults
\* (lines 206-207) and those of Pass 3 (lines 752, 755).
MergeThresholds == { << 550, 850 >>, << 600, 900 >> }

InitMerge ==
  /\ InitSystem
  /\ lastDetection \in
       [done : {FALSE},
        candidates : CandidateLists(MaxCandidates),
        thresholds : MergeThresholds,
        merged : {<< >>},
        again : {<< >>}]

\* mergeDetections applied to the candidates, and again to its own output.
mergeTwice ==
  /\ ~lastDetection.done
  /\ LET t == lastDetection.thresholds
          merged == mergeDetections(lastDetection.candidates, t[1], t[2])
     IN  lastDetection' =
           [lastDetection EXCEPT
              !.done = TRUE,
              !.merged = merged,
              !.again = mergeDetections(merged, t[1], t[2])]
  /\ UNCHANGED falsePositives
  /\ UNCHANGED << trackerVars, currentViewers, demographics, isCapturing,
                  intervalArmed, detectionVars, modeVars, pendingStarts,
                  playbackVars, queue, lastSessionSummary, reorderCall,
                  unfinalized, ticks >>

SpecMerge == InitMerge /\ [][mergeTwice]_vars

\* The numbers of the code are binary floating-point numbers, and every sum,
\* difference and product is rounded to the nearest one, ties to the even
\* mantissa.  The boxes the tracker keeps are not whole pixels (they are
\* smoothed by 0.3 and 0.7, lines 1230-1240), so the rounding shows.  The
\* model keeps MantissaBits bits of mantissa where the code keeps 53; a
\* number is written as a whole count of some power of two of a pixel.
MantissaBits == 4

RoundToMantissa(n) ==
  IF n < 2^MantissaBits THEN n
  ELSE LET e == CHOOSE k \in 1..16 :
                  n < 2^(MantissaBits + k) /\ n >= 2^(MantissaBits + k - 1)
           q == n \div 2^e
           r == n % 2^e
           up == r > 2^(e - 1) \/ (r = 2^(e - 1) /\ q % 2 = 1)
       IN  (IF up THEN q + 1 ELSE q) * 2^e

FloatAdd(a, b) == RoundToMantissa(a + b)
FloatSub(a, b) == IF a >= b THEN RoundToMantissa(a - b)
                  ELSE 0 - RoundToMantissa(b - a)
FloatMul(a, b) == RoundToMantissa(a * b)

\* calculateIoU (part_001 lines 1125-1139, part_004 lines 54-66, and inline
\* in part_005 lines 231-241) in the arithmetic of the code; the quotient
\* is << intersection, union >>, which is 1 exactly when the two are equal
\* and above 1 exactly when the intersection is the larger.
calculateIoUFloat(box1, box2) ==
  LET x1 == Max(box1.x, box2.x)
      y1 == Max(box1.y, box2.y)
      x2 == Min(FloatAdd(box1.x, box1.width), FloatAdd(box2.x, box2.width))
      y2 == Min(FloatAdd(box1.y, box1.height), FloatAdd(box2.y, box2.height))
      intersection ==
        FloatMul(Max(0, FloatSub(x2, x1)), Max(0, FloatSub(y2, y1)))
      area1 == FloatMul(box1.width, box1.height)
      area2 == FloatMul(box2.width, box2.height)
      union == FloatSub(FloatAdd(area1, area2), intersection)
  IN  IF union > 0 THEN << intersection, union >> ELSE << 0, 1 >>

\* Valid boxes (positive width and height) whose fields have at most
\* MantissaBits significant bits.
FloatBoxes ==
  [x : {0, 3, 5}, y : {0, 5}, width : {8, 14, 28}, height : {1, 2}]

InitIoU ==
  /\ InitSystem
  /\ lastDetection \in
       [done : {FALSE}, a : FloatBoxes, b : FloatBoxes,
        aa : {<< 0, 1 >>}, ab : {<< 0, 1 >>}, ba : {<< 0, 1 >>}]

\* calculateIoU applied to a box and itself, and to two boxes both ways.
calculateIoUs ==
  /\ ~lastDetection.done
  /\ lastDetection' =
       [lastDetection EXCEPT
          !.done = TRUE,
          !.aa = calculateIoUFloat(lastDetection.a, lastDetection.a),
          !.ab = calculateIoUFloat(lastDetection.a, lastDetection.b),
          !.ba = calculateIoUFloat(lastDetection.b, lastDetection.a)]
  /\ UNCHANGED falsePositives
  /\ UNCHANGED << trackerVars, currentViewers, demographics, isCapturing,
                  intervalArmed, detectionVars, modeVars, pendingStarts,
                  playbackVars, queue, lastSessionSummary, reorderCall,
                  unfinalized, ticks >>

SpecIoU == InitIoU /\ [][calculateIoUs]_vars

\* Promise.race settles: the body resolves or throws, or the timer of
\* DETECTION_TIMEOUT fires (lines 517-520, 814-821).
RaceSettles ==
  \/ \E results \in ResultChoices : CycleCompletes(results)
  \/ CycleFails
  \/ CycleTimesOut

\* The detection loop with the event loop running its timers: a pending
\* race does settle.
SpecFair == Spec /\ WF_vars(RaceSettles)

----------------------------------------------------------------------------
(* Properties                                                                *)

\* A tick whose detectFaces call returned [] because a detection was in
\* flight (line 506).
SkippedTick == inFlight /\ TickReturnsEmpty

\* C1: a scheduler tick that fires while the previous detection cycle is
\* still in flight is skipped entirely: it changes nothing in the track
\* table, in the open capture session, in the reported viewers or in the
\* demographics.
C1_SkippedTickChangesNothing ==
  [][SkippedTick =>
       UNCHANGED << trackedFaces, captureSession, currentViewers,
                    demographics >>]_vars

\* C5: in every completed detection cycle, each track of the table that the
\* cycle did not match to a detection has its missedFrames increased by
\* exactly 1 (and is removed when that exceeds the hold budget), whatever
\* else happened in the cycle.
C5_UnmatchedTrackMissesOneFrame ==
  [][\A results \in ResultChoices :
       CycleCompletes(results) =>
         \A id \in DOMAIN trackedFaces \
                      matchedIds(Matching(trackedFaces, results)) :
           IF id \in DOMAIN trackedFaces'
             THEN trackedFaces'[id].missedFrames =
                    trackedFaces[id].missedFrames + 1
             ELSE trackedFaces[id].missedFrames + 1 > holdFrames]_vars

\* The number of detection bodies executing.
BodiesRunning == (IF cycle # NoCycle THEN 1 ELSE 0) + abandoned

\* C10: at most one detection body is executing at any moment, and no body
\* is executing once the detectFaces call that started it has returned.
C10_DetectionBodiesNeverOverlap ==
  /\ BodiesRunning <= 1
  /\ cycle = NoCycle => abandoned = 0

\* A body abandoned by its timeout runs beside the body of a later tick.
C10_AbandonedBesideLive == cycle # NoCycle /\ abandoned > 0

\* A step in which detectFaces yields an empty result and the tick that
\* awaited it runs to its end.
EmptyResultCycle ==
  \/ CycleCompletes(<< >>)
  \/ CycleFails
  \/ CycleTimesOut
  \/ TickReturnsEmpty

\* C6 as claimed: a completed cycle whose detection result is empty reports
\* all-zero demographics, whatever tracks are still held.
C6_EmptyResultZeroDemographics ==
  [][EmptyResultCycle => demographics' = ZeroDemographics]_vars

\* The held tracks an empty cycle still reports: stable and confident.
HeldConfident(tracked) ==
  {id \in DOMAIN tracked :
     /\ tracked[id].consecutiveHits >= minConsecutiveFrames
     /\ tracked[id].confidence >= minDemographicConfidence}

\* C6 amended: a completed cycle whose detection result is empty reports,
\* per gender and age group, the number of tracks still held after the cycle
\* that are stable (consecutiveHits >= minConsecutiveFrames) and confident
\* (confidence >= minDemographicConfidence); the demographics are all zero
\* exactly when no such track is held.
C6_EmptyResultCountsHeldTracks ==
  [][EmptyResultCycle =>
       LET held == HeldConfident(trackedFaces')
       IN  /\ \A g \in Genders :
                demographics'[g] =
                  Cardinality({id \in held : trackedFaces'[id].stableGender = g})
           /\ \A a \in AgeGroups :
                demographics'[a] =
                  Cardinality({id \in held :
                                 trackedFaces'[id].stableAgeGroup = a})
           /\ (demographics' = ZeroDemographics) <=> (held = {})]_vars

\* An empty cycle has just aged every held track and still reports viewers.
C6_HeldTrackStillCounted ==
  /\ DOMAIN trackedFaces # {}
  /\ \A id \in DOMAIN trackedFaces : trackedFaces[id].missedFrames > 0
  /\ demographics # ZeroDemographics

\* The cycle in flight was started before the last source switch, and the
\* loop of the new source has been started.
StaleAfterSwitch == cycle # NoCycle /\ cycle.switched /\ intervalArmed

\* C2: after a switch of the frame source, the result of the cycle that was
\* in flight at the switch creates no track, updates no track and changes
\* no session viewer: no state computed on the previous source crosses the
\* switch.
C2_NoStateCrossesSourceSwitch ==
  [][\A results \in ResultChoices :
       (StaleAfterSwitch /\ CycleCompletes(results)) =>
         /\ DOMAIN trackedFaces' \subseteq DOMAIN trackedFaces
         /\ matchedIds(Matching(trackedFaces, results)) = {}
         /\ captureSession # NoSession =>
              captureSession'.viewers = captureSession.viewers]_vars

\* C8: after a false-positive correction, no track is created from the
\* result of the cycle that was in flight when the correction was made.
C8_NoTrackFromStaleResult ==
  [][\A results \in ResultChoices :
       (cycle # NoCycle /\ cycle.labelled /\ CycleCompletes(results)) =>
         DOMAIN trackedFaces' \subseteq DOMAIN trackedFaces]_vars

\* The step is a correction of track id.
Relabels(id) ==
  \E label \in LabelChoices :
    handleLabelDetection(id, label.isFalsePositive, label.actualGender,
                         label.actualAgeGroup)

\* C7: while a user-corrected track stays in the table, no step other than
\* a new correction of it changes its stable or raw gender and age group or
\* its vote totals, and the viewer reported for it carries the corrected
\* gender and age group.
C7_CorrectionIsPermanent ==
  [][\A id \in DOMAIN trackedFaces \cap DOMAIN trackedFaces' :
       (trackedFaces[id].isUserCorrected /\ ~Relabels(id)) =>
         /\ trackedFaces'[id].isUserCorrected
         /\ trackedFaces'[id].stableGender = trackedFaces[id].stableGender
         /\ trackedFaces'[id].stableAgeGroup = trackedFaces[id].stableAgeGroup
         /\ trackedFaces'[id].gender = trackedFaces[id].gender
         /\ trackedFaces'[id].ageGroup = trackedFaces[id].ageGroup
         /\ trackedFaces'[id].genderVotes = trackedFaces[id].genderVotes
         /\ trackedFaces'[id].ageVotes = trackedFaces[id].ageVotes
         /\ id \in DOMAIN currentViewers' =>
              /\ currentViewers'[id].gender = trackedFaces[id].stableGender
              /\ currentViewers'[id].ageGroup =
                   trackedFaces[id].stableAgeGroup]_vars

\* A track corrected to male/kid has since been matched by a detection (its
\* faceScore is the detection's again), and no detection says kid.
C7_CorrectedTrackMatchedAgain ==
  \E id \in DOMAIN trackedFaces :
    /\ trackedFaces[id].isUserCorrected
    /\ trackedFaces[id].faceScore < 1000
    /\ trackedFaces[id].stableAgeGroup = "kid"
    /\ id \in DOMAIN currentViewers /\ currentViewers[id].ageGroup = "kid"

\* C9: a timeout releases the in-flight flag, so that the next tick starts
\* a detection, and the flag never stays set forever.
C9_FlagAlwaysReleased ==
  /\ [][CycleTimesOut => ~inFlight']_vars
  /\ inFlight ~> ~inFlight

\* A cycle has timed out, its body is still running and the flag is free.
C9_TimedOutAndReleased == abandoned > 0 /\ ~inFlight /\ cycle = NoCycle

\* C3: whenever playback leaves the capture window with a session open, a
\* summary of that session is produced before the next window opens.
C3_SessionFinalizedBeforeNextWindow == unfinalized # "missed"

\* The step finalizes the open capture session (lines 1677-1719).
SessionCloses == captureSession # NoSession /\ captureSession' = NoSession

CycleStep ==
  \/ \E results \in ResultChoices : CycleCompletes(results)
  \/ CycleFails
  \/ CycleTimesOut
  \/ TickReturnsEmpty

\* The viewers of the session map (none when no session is open).
SessionViewers(session) ==
  IF session = NoSession THEN Empty ELSE session.viewers

\* C11: the track table and the session map have one writer, the detection
\* loop: a step that adds, removes or modifies a track or a session viewer
\* is a cycle of the loop (or the loop's start, or the close of the session).
C11_SingleWriter ==
  [][(\/ trackedFaces' # trackedFaces
      \/ SessionViewers(captureSession') # SessionViewers(captureSession)) =>
       (CycleStep \/ startDetectionLoop \/ SessionCloses)]_vars

\* C12: while a session is open, each track matched in a completed cycle
\* and stable in that cycle (reported to consumers after it) is observed
\* exactly once: its viewer aggregate gains one seenFrame or is created with
\* seenFrames = 1.
C12_ObservedOncePerCycle ==
  [][\A results \in ResultChoices :
       (captureSession # NoSession /\ CycleCompletes(results)) =>
         \A id \in matchedIds(Matching(trackedFaces, results)) :
           trackedFaces'[id].consecutiveHits >= minConsecutiveFrames =>
             /\ id \in DOMAIN captureSession'.viewers
             /\ captureSession'.viewers[id].seenFrames =
                  IF id \in DOMAIN captureSession.viewers
                    THEN captureSession.viewers[id].seenFrames + 1
                    ELSE 1]_vars

\* C13: consecutiveHits counts matches in a row: a track matched in a cycle
\* has at most one hit more than it had if it was seen in the cycle before
\* (missedFrames = 0), and at most 1 if it comes back after missed frames, so
\* that the stability threshold is only reached by matches in a row.
C13_ConsecutiveHitsRestartAfterMiss ==
  [][\A results \in ResultChoices :
       CycleCompletes(results) =>
         \A id \in matchedIds(Matching(trackedFaces, results)) :
           trackedFaces'[id].consecutiveHits <=
             (IF trackedFaces[id].missedFrames = 0
                THEN trackedFaces[id].consecutiveHits ELSE 0) + 1]_vars

\* C14: a cycle changes the stableGender of a track that is not user
\* corrected only if, after the cycle's vote update, the gender votes total
\* at least 0.9 and differ by at least 0.25; otherwise the value is kept.
C14_StableGenderHysteresis ==
  [][CycleStep =>
       \A id \in DOMAIN trackedFaces \cap DOMAIN trackedFaces' :
         (/\ ~trackedFaces[id].isUserCorrected
          /\ trackedFaces'[id].stableGender # trackedFaces[id].stableGender) =>
            LET votes == trackedFaces'[id].genderVotes
            IN  /\ votes.male + votes.female >= 900
                /\ Abs(votes.female - votes.male) >= 250]_vars

\* A track keeps stableGender male although its female votes lead (by less
\* than the margin).
C14_LeadWithinMarginKept ==
  \E id \in DOMAIN trackedFaces :
    /\ ~trackedFaces[id].isUserCorrected
    /\ trackedFaces[id].stableGender = "male"
    /\ trackedFaces[id].genderVotes.male + trackedFaces[id].genderVotes.female
         >= 900
    /\ trackedFaces[id].genderVotes.female > trackedFaces[id].genderVotes.male

\* C15: at every cycle boundary no track of the table has missedFrames above
\* holdFrames: a track that exceeds it is removed in the cycle that ages it.
C15_NoTrackBeyondHoldFrames ==
  \A id \in DOMAIN trackedFaces : trackedFaces[id].missedFrames <= holdFrames

\* The only track of the session was created and has been removed by the
\* missed-frame block (nothing else empties the table during a session).
C15_StaleTrackRemoved ==
  /\ trackedFaces = Empty
  /\ nextId = 2
  /\ captureSession # NoSession
  /\ captureSession.frameCount = holdFrames + 2

\* C16: the summary of a closing session lists exactly the session viewers
\* with seenFrames >= 2 and bestConfidence >= the minimum demographic
\* confidence, and uniqueViewers is their number.
C16_SummaryListsQualifiedViewers ==
  [][SessionCloses =>
       LET qualified ==
             {v \in DOMAIN captureSession.viewers :
                /\ captureSession.viewers[v].seenFrames >= 2
                /\ captureSession.viewers[v].bestConfidence >=
                     minDemographicConfidence}
       IN  /\ lastSessionSummary'.made
           /\ DOMAIN lastSessionSummary'.viewers = qualified
           /\ lastSessionSummary'.uniqueViewers = Cardinality(qualified)
           /\ \A v \in qualified :
                lastSessionSummary'.viewers[v] = captureSession.viewers[v]]_vars

\* A summary that lists a viewer.
C16_SummaryWithViewer ==
  /\ lastSessionSummary.made
  /\ lastSessionSummary.uniqueViewers = 1
  /\ \E v \in DOMAIN lastSessionSummary.viewers :
       /\ lastSessionSummary.viewers[v].seenFrames >= 2
       /\ lastSessionSummary.viewers[v].bestConfidence >= minDemographicConfidence

\* The session has run 5 cycles of which the first four created no track and
\* the fifth created the only track, from a strong male/young detection.
FifthCycleFirstFace ==
  /\ captureSession # NoSession
  /\ captureSession.frameCount = 5
  /\ nextId = 2
  /\ DOMAIN trackedFaces = {1}
  /\ trackedFaces[1].consecutiveHits = 1
  /\ trackedFaces[1].missedFrames = 0
  /\ trackedFaces[1].gender = "male"
  /\ trackedFaces[1].ageGroup = "young"
  /\ trackedFaces[1].confidence >= minDemographicConfidence

\* C17: from an empty track table and a newly opened session, four cycles
\* without a face and a fifth with one strong male/young detection, followed
\* by the close of the session, give a summary with uniqueViewers = 0.
C17_LateFaceNotCounted ==
  [][(FifthCycleFirstFace /\ SessionCloses) =>
       /\ lastSessionSummary'.made
       /\ lastSessionSummary'.totalFrames = 5
       /\ lastSessionSummary'.uniqueViewers = 0]_vars

\* The session of that sequence has been closed.
C17_ClosedAfterFiveCycles ==
  /\ captureSession = NoSession
  /\ lastSessionSummary.made
  /\ lastSessionSummary.totalFrames = 5
  /\ lastSessionSummary.uniqueViewers = 0
  /\ nextId = 2
  /\ DOMAIN trackedFaces = {1}
  /\ trackedFaces[1].consecutiveHits = 1
  /\ trackedFaces[1].missedFrames = 0
  /\ trackedFaces[1].gender = "male"
  /\ trackedFaces[1].confidence >= minDemographicConfidence

GenderTargets == {"male", "female", "all"}
AgeTargets == {"kid", "young", "adult", "all"}

\* C18: the base score of a spot is 10 when both targets equal the dominant
\* gender and age, 5 when both criteria are satisfied and a target is 'all',
\* 3 when exactly one criterion is satisfied and -5 only when neither is, a
\* criterion being satisfied when the target equals the dominant value or is
\* 'all'; for every spot and every demographics a reorder is called with.
C18_BaseScoreTable ==
  reorderCall.called =>
    LET d == reorderCall.demographics
    IN  \A gender \in GenderTargets, ageGroup \in AgeTargets :
          LET genderSatisfied == gender = dominantGender(d) \/ gender = "all"
              ageSatisfied == ageGroup = dominantAge(d) \/ ageGroup = "all"
          IN  baseScore(gender, ageGroup, d) =
                IF gender = dominantGender(d) /\ ageGroup = dominantAge(d)
                  THEN 10
                ELSE IF genderSatisfied /\ ageSatisfied THEN 5
                ELSE IF genderSatisfied \/ ageSatisfied THEN 3
                ELSE -5

\* C19: at every reorder the spot chosen last for playback, the spot the
\* system started with included, has exactly 3 subtracted from its base
\* score and no other spot is penalised.
C19_PrecedingSelectionPenalised ==
  [][reorderCall'.called =>
       \A ad \in allAds :
         scoreAd(ad, reorderCall'.demographics, lastPlayedId') =
           scoreAd(ad, reorderCall'.demographics, 0)
             - (IF ad = currentAd' THEN 3 ELSE 0)]_vars

\* C20: after every reorder the queue holds min(2, catalog size) distinct
\* catalog spots, no spot outside it scores higher than a spot inside it,
\* and the first entry scores at least as much as the second.
C20_QueueIsTopTwo ==
  [][reorderCall'.called =>
       LET score(ad) == scoreAd(ad, reorderCall'.demographics, lastPlayedId')
           inside == {queue'[i] : i \in 1..Len(queue')}
       IN  /\ Len(queue') = Min(2, NumAds)
           /\ Cardinality(inside) = Len(queue')
           /\ inside \subseteq allAds
           /\ \A i \in inside, o \in allAds \ inside : score(o) <= score(i)
           /\ \A k \in 1..(Len(queue') - 1) :
                score(queue'[k]) >= score(queue'[k + 1])]_vars

\* A reorder has put two spots in the queue that both outscore a spot left
\* out, the first scoring more than the second.
C20_ReorderedQueue ==
  /\ reorderCall.called
  /\ Len(queue) = 2
  /\ scoreAd(queue[1], reorderCall.demographics, lastPlayedId) >
       scoreAd(queue[2], reorderCall.demographics, lastPlayedId)
  /\ \E o \in allAds :
       /\ o # queue[1] /\ o # queue[2]
       /\ scoreAd(o, reorderCall.demographics, lastPlayedId) <
            scoreAd(queue[2], reorderCall.demographics, lastPlayedId)

\* The upscale factor (in tenths) of the canvas a pass runs its detectors on.
PassScale(config, pass) ==
  IF pass = 1 THEN 10 ELSE IF pass = 2 THEN config.upscale ELSE 25

\* C21: every box detectFaces returns is in source-frame pixels: it is the
\* raw box of the surviving candidate mapped back by the upscale factor of
\* the pass that produced the candidate.
C21_BoxesInFramePixels ==
  lastDetection.done =>
    \A i \in 1..Len(lastDetection.results) :
      LET r == lastDetection.results[i]
          scale == PassScale(lastDetection.config, r.pass)
      IN  r.boundingBox =
            [x |-> ScaledBack(r.raw.x, scale),
             y |-> ScaledBack(r.raw.y, scale),
             width |-> ScaledBack(r.raw.width, scale),
             height |-> ScaledBack(r.raw.height, scale)]

\* C22: for every configured sensitivity the score threshold of the Pass 2
\* detector calls is strictly higher than the threshold of the Pass 1 calls
\* of the same cycle.
C22_RescueThresholdStricter ==
  (lastDetection.done /\ lastDetection.passUsed = 2) =>
    lastDetection.rescueThreshold > lastDetection.pass1Threshold

\* effectiveDistance (doubled) and score of a detection for a track, as the
\* matcher computes them (lines 1198-1214).
EffectiveDistance(trackedFace, detection) ==
  Min(calculateCenterDistance(detection.boundingBox, trackedFace.boundingBox),
      calculateCenterDistance(detection.boundingBox,
        [trackedFace.boundingBox EXCEPT
           !.x = trackedFace.boundingBox.x + trackedFace.velocity.vx,
           !.y = trackedFace.boundingBox.y + trackedFace.velocity.vy]))

CandidateScore(trackedFace, detection) ==
  MatchScore(calculateIoU(detection.boundingBox, trackedFace.boundingBox),
             EffectiveDistance(trackedFace, detection))

\* effectiveDistance <= maxVelocityPx and (IoU > 0.2 or effectiveDistance < 80).
Eligible(trackedFace, detection) ==
  LET iou == calculateIoU(detection.boundingBox, trackedFace.boundingBox)
      effectiveDistance == EffectiveDistance(trackedFace, detection)
  IN  /\ effectiveDistance <= 2 * maxVelocityPx
      /\ (5 * iou[1] > iou[2] \/ effectiveDistance < 2 * 80)

\* match gives every track, in table order, a highest-scoring eligible
\* detection not claimed by an earlier track, and 0 only when there is none.
GreedyAssignment(tracked, results, match) ==
  /\ \A id \in DOMAIN tracked :
       LET claimed == {match[k] : k \in {j \in DOMAIN tracked : j < id}} \ {0}
           open == {i \in 1..Len(results) :
                      i \notin claimed /\ Eligible(tracked[id], results[i])}
       IN  IF open = {} THEN match[id] = 0
           ELSE /\ match[id] \in open
                /\ \A i \in open :
                     CandidateScore(tracked[id], results[i]) <=
                       CandidateScore(tracked[id], results[match[id]])
  /\ \A a, b \in DOMAIN tracked :
       (a # b /\ match[a] # 0) => match[a] # match[b]

\* C23: in each cycle the matcher assigns to each track, in table order, the
\* highest-scoring detection among those not yet claimed by an earlier track
\* that are within maxVelocityPx and have IoU > 0.2 or distance < 80, leaves
\* a track unmatched only if there is none, and so assigns no detection to
\* two tracks; for every track table reached and every result of a cycle.
C23_GreedyMatching ==
  \A results \in MatchResults :
    GreedyAssignment(trackedFaces, results, Matching(trackedFaces, results))

\* Two tracks stood 60 pixels apart and the only detection of the cycle, at
\* the place of the second, went to the first: the first moved to it and
\* the second missed the frame.
C23_EarlierTrackClaimedDetection ==
  /\ DOMAIN trackedFaces = {1, 2}
  /\ trackedFaces[1].boundingBox.x = 42
  /\ trackedFaces[1].consecutiveHits = 2
  /\ trackedFaces[2].boundingBox.x = 60
  /\ trackedFaces[2].missedFrames = 1

\* C24: merge is idempotent: for any candidates and fixed thresholds, merging
\* the output of the merge again returns exactly the same candidates.
C24_MergeIdempotent ==
  lastDetection.done => lastDetection.again = lastDetection.merged

\* A merge that dropped a duplicate and kept two candidates, which the second
\* merge had to compare with each other.
C24_MergedWithDuplicate ==
  /\ lastDetection.done
  /\ Len(lastDetection.merged) = 2
  /\ Len(lastDetection.candidates) = 3
  /\ lastDetection.again = lastDetection.merged

\* C25: for any boxes a and b of positive width and height, IoU(a, a) = 1,
\* IoU(a, b) = IoU(b, a), and 0 <= IoU(a, b) <= 1.
C25_IoUProperties ==
  lastDetection.done =>
    /\ lastDetection.aa[1] = lastDetection.aa[2]
    /\ lastDetection.ab[1] * lastDetection.ba[2] =
         lastDetection.ba[1] * lastDetection.ab[2]
    /\ 0 <= lastDetection.ab[1]
    /\ lastDetection.ab[1] <= lastDetection.ab[2]

\* C26: detection started with startDetectionWithSource runs until it is
\* stopped by hand: while the source is running (testMode, isCapturing, no
\* source being started) the playback events (a time update across a capture
\* window boundary, the end of the ad, a skip) leave isCapturing true and the
\* interval armed.
C26_PlaybackLeavesTestDetection ==
  [][(/\ testMode /\ isCapturing /\ ~sourceStarting
      /\ (handleAdEnded \/ \E time \in 0..60 : handleTimeUpdate(time)))
       => (isCapturing' /\ (intervalArmed => intervalArmed'))]_vars

\* C30: once detection has been stopped (stopTestMode, manual-mode toggle,
\* end of the ad, close of the capture window), a detection cycle that was in
\* flight at the stop publishes nothing when it completes: the reported
\* viewers, the demographics, the track table and the capture session stay
\* as they are.
C30_StoppedCyclePublishesNothing ==
  [][(/\ cycle # NoCycle /\ ~cycle.switched /\ ~isCapturing
      /\ \E results \in SessionResults : CycleCompletes(results))
       => UNCHANGED << currentViewers, demographics, trackedFaces,
                       captureSession >>]_vars

\* C27: in automatic mode, whenever the queue holds at least two distinct
\* ads, the ad getNextAd returns at the end of an ad is not the ad that has
\* just played, be that the ad the system started with or an ad returned by
\* the empty-queue reset.
C27_NoImmediateRepeat ==
  [][(/\ ~manualMode
      /\ Cardinality({queue[i] : i \in 1..Len(queue)}) >= 2
      /\ handleAdEnded)
       => currentAd' # currentAd]_vars

====
